---- MODULE Spec2Model ----
(***************************************************************************)
(* A model of miyavkify's app.py: the recommendation and impact engine     *)
(* (get_recommendations, the two density estimators, compute_impact, the   *)
(* comparison computed in assess) and the progress ledger                  *)
(* (save_progress_entry over load_progress_log / save_progress_log, the    *)
(* gallery read and compute_badges_for_user).                              *)
(*                                                                         *)
(* Strings that the code inspects character by character (file names,      *)
(* timestamps) are sequences of one-character strings.  Python floats that *)
(* the code computes with are exact fractions [num, den] or one of the     *)
(* special values nan, inf, ninf.  One-decimal ratios are integers in      *)
(* tenths.                                                                 *)
(***************************************************************************)
EXTENDS Integers, Sequences, FiniteSets

VARIABLES
    plantDb,     \* PLANT_DB["regions"], loaded once at start (app.py:28-29)
    recOut,      \* the value get_recommendations last returned
    estOut,      \* the values the two estimators last returned or raised
    assessOut,   \* the response of the last POST /assess
    now,         \* the wall clock datetime.utcnow() reads, in seconds
    doc,         \* the persisted document at LOG_PATH
    uploads,     \* the file names present in UPLOAD_FOLDER
    pc,          \* per worker: where its save_progress_entry call stands
    call,        \* per worker: the locals of its call in progress
    outcome,     \* per worker: the response to its last request
    found,       \* how many entries the document held at start
    begun,       \* how many submissions with a valid photo were begun
    ledger       \* the entries found at start, then the entry of each call
                 \* that returned a filename, in the order of the returns

vars == <<plantDb, recOut, estOut, assessOut, now, doc, uploads, pc, call,
          outcome, found,
          begun, ledger>>

engineVars == <<plantDb, recOut, estOut, assessOut>>
ledgerVars ==
    <<now, doc, uploads, pc, call, outcome, found, begun, ledger>>

-----------------------------------------------------------------------------
(* Bounds of the model *)

MaxLen == 2          \* longest plant list of a catalog profile
MaxArea8 == 24       \* largest numeric area input, in eighths of a unit
MaxClock == 10       \* last second the clock reaches
MaxCalls == 2        \* submissions accepted in the concurrent specification
MaxSeqCalls == 4     \* submissions accepted in the sequential specification

-----------------------------------------------------------------------------
(* Generic helpers *)

Range(s) == {s[i] : i \in 1..Len(s)}

SeqsUpTo(S, n) == UNION {[1..k -> S] : k \in 0..n}

NoDuplicates(s) == \A i, j \in 1..Len(s) : i # j => s[i] # s[j]

Count(s, x) == Cardinality({i \in 1..Len(s) : s[i] = x})

IsPrefix(s, t) == Len(s) <= Len(t) /\ SubSeq(t, 1, Len(s)) = s

Abs(x) == IF x < 0 THEN -x ELSE x

-----------------------------------------------------------------------------
(* Plant catalog and get_recommendations *)

Plants == {"Mango", "Neem"}

DefaultCost == 500
DefaultMaturity == 24

\* A soil profile: `keys` are the keys present in the JSON object; the value
\* of an absent key is never read.
Profile(keys, fruit, oxygen, native, cost, maturity) ==
    [keys |-> keys, fruit_trees |-> fruit, oxygen_trees |-> oxygen,
     native_trees |-> native, cost_per_tree |-> cost,
     maturity_months |-> maturity]

\* data.get(key, default)
DictGet(data, key, value, default) ==
    IF key \in data.keys THEN value ELSE default

\* plants.extend(data["fruit_trees"])
Extend(plants, more) == plants \o more

\* The oxygen loop without its membership test (the variant C6 is tried
\* against)
AppendMissingUnchecked(plants, more) == plants \o more

\* for p in data["oxygen_trees"]: if p not in plants: plants.append(p)
RECURSIVE AppendMissing(_, _)
AppendMissing(plants, more) ==
    IF more = <<>> THEN plants
    ELSE AppendMissing(
            IF Head(more) \in Range(plants) THEN plants
            ELSE Append(plants, Head(more)),
            Tail(more))

\* PLANT_DB["regions"][region][soil] raises KeyError
KeyError(db, region, soil) ==
    \/ region \notin DOMAIN db
    \/ soil \notin DOMAIN db[region]

FruitStep(data, wants_fruit) ==
    IF wants_fruit /\ "fruit_trees" \in data.keys
    THEN Extend(<<>>, data.fruit_trees) ELSE <<>>

OxygenStep(data, plants) ==
    IF "oxygen_trees" \in data.keys
    THEN AppendMissing(plants, data.oxygen_trees) ELSE plants

NativeStep(data, plants) ==
    IF plants = <<>> /\ "native_trees" \in data.keys
    THEN data.native_trees ELSE plants

get_recommendations(db, region, soil, wants_fruit) ==
    IF KeyError(db, region, soil)
    THEN [plants |-> <<>>, cost_per_tree |-> DefaultCost,
          maturity_months |-> DefaultMaturity]
    ELSE LET data == db[region][soil]
             plants == NativeStep(data,
                          OxygenStep(data, FruitStep(data, wants_fruit)))
         IN [plants |-> plants,
             cost_per_tree |->
                 DictGet(data, "cost_per_tree", data.cost_per_tree, DefaultCost),
             maturity_months |->
                 DictGet(data, "maturity_months", data.maturity_months,
                         DefaultMaturity)]

-----------------------------------------------------------------------------
(* Density estimators *)

NaN == [kind |-> "nan", num |-> 0, den |-> 1]
PosInf == [kind |-> "inf", num |-> 0, den |-> 1]
NegInf == [kind |-> "ninf", num |-> 0, den |-> 1]
Fin(n, d) == [kind |-> "fin", num |-> n, den |-> d]

\* What request.form.get("area_sqm") can hand over: nothing, text that is no
\* number, the special spellings float() accepts, or a decimal numeral
\* (written here by its value in eighths).
AreaInputs ==
    {[kind |-> "none", e |-> 0], [kind |-> "text", e |-> 0],
     [kind |-> "nan", e |-> 0], [kind |-> "inf", e |-> 0],
     [kind |-> "ninf", e |-> 0]}
    \cup {[kind |-> "numeral", e |-> e] : e \in -8..MaxArea8}

\* float(area_sqm): TypeError for None, ValueError for text that is no number
float(a) ==
    CASE a.kind = "none" -> [kind |-> "TypeError", num |-> 0, den |-> 1]
      [] a.kind = "text" -> [kind |-> "ValueError", num |-> 0, den |-> 1]
      [] a.kind = "nan" -> NaN
      [] a.kind = "inf" -> PosInf
      [] a.kind = "ninf" -> NegInf
      [] a.kind = "numeral" -> Fin(a.e, 8)

\* area <= 0: every comparison with nan is false
FloatLeqZero(f) ==
    CASE f.kind = "nan" -> FALSE
      [] f.kind = "inf" -> FALSE
      [] f.kind = "ninf" -> TRUE
      [] f.kind = "fin" -> f.num <= 0

\* area * (n/d) for a positive factor
FloatMul(f, n, d) ==
    IF f.kind = "fin" THEN Fin(f.num * n, f.den * d) ELSE f

Returned(v) == [kind |-> "return", value |-> v, exc |-> ""]
Raised(exc) == [kind |-> "raise", value |-> 0, exc |-> exc]

\* int(x): truncation toward zero; ValueError for nan, OverflowError for
\* an infinity
int(f) ==
    CASE f.kind = "nan" -> Raised("ValueError")
      [] f.kind \in {"inf", "ninf"} -> Raised("OverflowError")
      [] f.kind = "fin" ->
            Returned(IF f.num >= 0 THEN f.num \div f.den
                     ELSE -((-f.num) \div f.den))

Estimate(area_sqm, n, d) ==
    LET area == float(area_sqm) IN
    IF area.kind \in {"TypeError", "ValueError"} THEN Returned(0)
    ELSE IF FloatLeqZero(area) THEN Returned(0)
    ELSE int(FloatMul(area, n, d))

estimate_tree_count(area_sqm) == Estimate(area_sqm, 4, 1)

estimate_traditional_tree_count(area_sqm) == Estimate(area_sqm, 3, 2)

-----------------------------------------------------------------------------
(* compute_impact *)

Co2PerTree == 20
OxygenPerTree == 22

compute_impact(tree_count, cost_per_tree) ==
    IF tree_count <= 0
    THEN [co2_kg_per_year |-> 0, oxygen_kg_per_year |-> 0, total_cost |-> 0]
    ELSE [co2_kg_per_year |-> tree_count * Co2PerTree,
          oxygen_kg_per_year |-> tree_count * OxygenPerTree,
          total_cost |-> tree_count * cost_per_tree]

-----------------------------------------------------------------------------
(* The comparison computed in assess *)

\* int(rec["cost_per_tree"] * 0.85) for a whole, positive cost
TraditionalCostPerTree(cost) == (cost * 85) \div 100

\* int(rec["maturity_months"] * 2)
TraditionalMaturity(maturity) == maturity * 2

\* round(n / d, 1) in tenths, for n >= 0 and d > 0.  Python rounds the
\* double n / d correctly: to the nearer tenth, and a double that lies
\* exactly halfway (only a quotient ending in .25 or .75 is such a double) to
\* the even tenth.  A quotient ending in .05, .15, .35, ... is no double;
\* the double nearest to it lies above or below it, and round follows it.
Round1(n, d) ==
    LET q == (10 * n) \div d
        r == (10 * n) - q * d
    IN IF 2 * r < d THEN {q}
       ELSE IF 2 * r > d THEN {q + 1}
       ELSE IF (2 * q + 1) % 5 = 0
            THEN {IF q % 2 = 0 THEN q ELSE q + 1}
            ELSE {q, q + 1}

ZeroDivision == 0 - 1

\* n / d raises ZeroDivisionError when d is 0
Divide(n, d) == IF d = 0 THEN {ZeroDivision} ELSE Round1(n, d)

TreesRatio(tree_count, traditional_tree_count) ==
    IF traditional_tree_count > 0
    THEN Divide(tree_count, traditional_tree_count) ELSE {0}

\* The cost ratio without its guard (the variant C8 is tried against)
CostRatioUnguarded(total_cost, traditional_total_cost) ==
    Divide(total_cost, traditional_total_cost)

CostRatio(total_cost, traditional_total_cost) ==
    IF traditional_total_cost > 0
    THEN Divide(total_cost, traditional_total_cost) ELSE {0}

SpeedRatio(traditional_maturity_months, maturity_months) ==
    IF traditional_maturity_months > 0
    THEN Divide(traditional_maturity_months, maturity_months) ELSE {0}

NoUser == "<none>"
Users == {"asha", "ravi"}

NoResponse == [kind |-> "none"]

\* The pages POST /assess can answer with for a request from `user`.
AssessResponses(db, user, region, soil, wants_fruit, area_sqm) ==
    IF user = NoUser THEN {[kind |-> "redirect"]}
    ELSE
    LET rec == get_recommendations(db, region, soil, wants_fruit)
        tc == estimate_tree_count(area_sqm)
        ttc == estimate_traditional_tree_count(area_sqm)
    IN IF tc.kind = "raise" THEN {[kind |-> "error", exc |-> tc.exc]}
       ELSE IF ttc.kind = "raise" THEN {[kind |-> "error", exc |-> ttc.exc]}
       ELSE
       LET impact == compute_impact(tc.value, rec.cost_per_tree)
           tcost == TraditionalCostPerTree(rec.cost_per_tree)
           timpact == compute_impact(ttc.value, tcost)
           tmat == TraditionalMaturity(rec.maturity_months)
       IN {IF ZeroDivision \in {tr, cr, sr}
           THEN [kind |-> "error", exc |-> "ZeroDivisionError"]
           ELSE [kind |-> "results",
                 region |-> region, soil |-> soil, area_sqm |-> area_sqm,
                 recommendations |-> rec,
                 tree_count |-> tc.value,
                 impact |-> impact,
                 traditional_tree_count |-> ttc.value,
                 traditional_cost_per_tree |-> tcost,
                 traditional_impact |-> timpact,
                 traditional_maturity_months |-> tmat,
                 comparison |-> [trees_ratio |-> tr, cost_ratio |-> cr,
                                 speed_ratio |-> sr]] :
             tr \in TreesRatio(tc.value, ttc.value),
             cr \in CostRatio(impact.total_cost, timpact.total_cost),
             sr \in SpeedRatio(tmat, rec.maturity_months)}

-----------------------------------------------------------------------------
(* Inputs of the engine *)

Regions == {"Gujarat", "Atlantis"}
Soils == {"clayey", "sandy"}

PlantLists == SeqsUpTo(Plants, MaxLen)

ListKeys == {"fruit_trees", "oxygen_trees", "native_trees"}

\* Catalogs with one region and one soil, the profile's plant lists varying
RecCatalogs ==
    {[r \in {"Gujarat"} |-> [s \in {"clayey"} |->
        Profile(keys, f, o, n, DefaultCost, DefaultMaturity)]] :
     keys \in SUBSET ListKeys,
     f \in PlantLists, o \in PlantLists, n \in PlantLists}

Costs == {1, 7, 500}
Maturities == {1, 18}

\* Catalogs with one region and one soil, cost and maturity varying
AssessCatalogs ==
    {[r \in {"Gujarat"} |-> [s \in {"clayey"} |->
        Profile(ListKeys \cup keys, <<"Mango">>, <<"Neem", "Mango">>,
                <<"Neem">>, c, m)]] :
     keys \in SUBSET {"cost_per_tree", "maturity_months"},
     c \in Costs, m \in Maturities}

HomeCatalog ==
    [r \in {"Gujarat"} |-> [s \in {"clayey"} |->
        Profile(ListKeys, <<"Mango">>, <<"Neem", "Mango">>, <<"Neem">>,
                DefaultCost, DefaultMaturity)]]

-----------------------------------------------------------------------------
(* Actions of the engine.  Each behaviour applies one operation to the    *)
(* catalog and the inputs drawn: the operations are pure, and a second     *)
(* application would start from the same state.                            *)

EngineIdle ==
    /\ recOut = NoResponse
    /\ estOut = NoResponse
    /\ assessOut = NoResponse

Recommend(region, soil, wants_fruit) ==
    /\ EngineIdle
    /\ recOut' = [kind |-> "rec", region |-> region, soil |-> soil, wants_fruit |-> wants_fruit,
                  rec |-> get_recommendations(plantDb, region, soil, wants_fruit)]
    /\ UNCHANGED <<plantDb, estOut, assessOut>>
    /\ UNCHANGED ledgerVars

EstimateTrees(area_sqm) ==
    /\ EngineIdle
    /\ estOut' = [kind |-> "est", area_sqm |-> area_sqm,
                  intensive |-> estimate_tree_count(area_sqm),
                  traditional |-> estimate_traditional_tree_count(area_sqm)]
    /\ UNCHANGED <<plantDb, recOut, assessOut>>
    /\ UNCHANGED ledgerVars

Assess(user, region, soil, wants_fruit, area_sqm) ==
    /\ EngineIdle
    /\ assessOut' \in
          AssessResponses(plantDb, user, region, soil, wants_fruit, area_sqm)
    /\ UNCHANGED <<plantDb, recOut, estOut>>
    /\ UNCHANGED ledgerVars

-----------------------------------------------------------------------------
(* Strings the ledger code takes apart *)

Digits == <<"0", "1", "2", "3", "4", "5", "6", "7", "8", "9">>

UpperCase == <<"A", "B", "C", "D", "E", "F", "G", "H", "I", "J", "K", "L", "M",
               "N", "O", "P", "Q", "R", "S", "T", "U", "V", "W", "X", "Y", "Z">>
LowerCase == <<"a", "b", "c", "d", "e", "f", "g", "h", "i", "j", "k", "l", "m",
               "n", "o", "p", "q", "r", "s", "t", "u", "v", "w", "x", "y", "z">>

\* The code point order of the characters a timestamp is made of
CharOrd(c) == CHOOSE i \in 1..10 : Digits[i] = c

\* a < b for two strings of digits, as Python compares str
RECURSIVE StrLess(_, _)
StrLess(a, b) ==
    IF b = <<>> THEN FALSE
    ELSE IF a = <<>> THEN TRUE
    ELSE IF Head(a) # Head(b) THEN CharOrd(Head(a)) < CharOrd(Head(b))
    ELSE StrLess(Tail(a), Tail(b))

StrLeq(a, b) == a = b \/ StrLess(a, b)

\* str.lower()
LowerChar(c) ==
    IF \E i \in 1..26 : UpperCase[i] = c
    THEN LowerCase[CHOOSE i \in 1..26 : UpperCase[i] = c]
    ELSE c

Lower(s) == [i \in 1..Len(s) |-> LowerChar(s[i])]

\* filename.rsplit(".", 1)[1], for a filename with a dot in it
RECURSIVE AfterLastDot(_)
AfterLastDot(s) ==
    IF "." \in Range(Tail(s)) THEN AfterLastDot(Tail(s))
    ELSE IF Head(s) = "." THEN Tail(s)
    ELSE AfterLastDot(Tail(s))

\* str.strip(chars)
RECURSIVE LStrip(_, _)
LStrip(s, chars) ==
    IF s # <<>> /\ Head(s) \in chars THEN LStrip(Tail(s), chars) ELSE s

RECURSIVE RStrip(_, _)
RStrip(s, chars) ==
    IF s # <<>> /\ s[Len(s)] \in chars
    THEN RStrip(SubSeq(s, 1, Len(s) - 1), chars) ELSE s

Strip(s, chars) == RStrip(LStrip(s, chars), chars)

\* werkzeug's secure_filename on a name of ASCII letters, digits and dots:
\* nothing to replace or drop, so only the closing strip("._") acts
secure_filename(s) == Strip(s, {".", "_"})

ALLOWED_EXTENSIONS == {<<"p", "n", "g">>, <<"j", "p", "g">>, <<"j", "p", "e", "g">>}

\* allowed_file taking the whole name for the extension when it has no dot
\* (the variant C4 is tried against)
allowed_file_without_dot_test(filename) ==
    Lower(IF "." \in Range(filename) THEN AfterLastDot(filename) ELSE filename)
        \in ALLOWED_EXTENSIONS

allowed_file(filename) ==
    /\ "." \in Range(filename)
    /\ Lower(AfterLastDot(filename)) \in ALLOWED_EXTENSIONS

\* datetime.utcnow().strftime("%Y%m%d%H%M%S"), the clock counting the
\* seconds of the first hour of 2024-01-01
TwoDigits(n) == <<Digits[(n \div 10) + 1], Digits[(n % 10) + 1]>>

strftime(t) ==
    <<"2", "0", "2", "4", "0", "1", "0", "1", "0", "0">>
    \o TwoDigits(t \div 60) \o TwoDigits(t % 60)

-----------------------------------------------------------------------------
(* The persisted document and its readers *)

Document(kind, entries) == [kind |-> kind, entries |-> entries]

ListDoc(entries) == Document("list", entries)

\* load_progress_log starting a fresh list whatever the file holds (the
\* variant C2 is tried against)
load_progress_log_fresh(d) == ListDoc(<<>>)

\* load_progress_log: no file is [], text that does not parse is [], and
\* whatever parses is returned as it is
load_progress_log(d) ==
    CASE d.kind = "missing" -> ListDoc(<<>>)
      [] d.kind \in {"empty", "malformed"} -> ListDoc(<<>>)
      [] d.kind = "nonlist" -> d
      [] d.kind = "list" -> d

\* load_progress_entries: as above, and a value that is no list is []
load_progress_entries(d) ==
    CASE d.kind = "missing" -> <<>>
      [] d.kind \in {"empty", "malformed"} -> <<>>
      [] d.kind = "nonlist" -> <<>>
      [] d.kind = "list" -> d.entries

-----------------------------------------------------------------------------
(* Gallery: per-user read and badges *)

\* The gallery without its filter (the variant C5 is tried against)
UserEntriesUnfiltered(entries, current_user) == entries

\* [e for e in entries if e.get("username") == current_user]
UserEntries(entries, current_user) ==
    SelectSeq(entries, LAMBDA e : e.username = current_user)

\* One step of the stable sort, newest first: x goes behind every entry
\* whose created_at is not smaller than its own
RECURSIVE InsertNewestFirst(_, _)
InsertNewestFirst(sorted, x) ==
    IF sorted = <<>> THEN <<x>>
    ELSE IF StrLess(Head(sorted).created_at, x.created_at)
         THEN <<x>> \o sorted
         ELSE <<Head(sorted)>> \o InsertNewestFirst(Tail(sorted), x)

\* sorted(user_entries, key=created_at, reverse=True)
RECURSIVE SortNewestFirst(_)
SortNewestFirst(s) ==
    IF s = <<>> THEN <<>>
    ELSE InsertNewestFirst(SortNewestFirst(SubSeq(s, 1, Len(s) - 1)), s[Len(s)])

\* The badge thresholds compared with > (the variant C9 is tried against)
BadgesForCountStrict(count) ==
    (IF count > 1 THEN <<"Forest starter">> ELSE <<>>)
    \o (IF count > 3 THEN <<"Consistent carer">> ELSE <<>>)
    \o (IF count > 5 THEN <<"Storyteller">> ELSE <<>>)

BadgesForCount(count) ==
    (IF count >= 1 THEN <<"Forest starter">> ELSE <<>>)
    \o (IF count >= 3 THEN <<"Consistent carer">> ELSE <<>>)
    \o (IF count >= 5 THEN <<"Storyteller">> ELSE <<>>)

compute_badges_for_user(user_entries) == BadgesForCount(Len(user_entries))

-----------------------------------------------------------------------------
(* Inputs of the ledger *)

Workers == {1, 2}

\* The hidden context fields and the note of a POST /progress
Form(region, soil, area_sqm, note) ==
    [region |-> region, soil |-> soil, area_sqm |-> area_sqm, note |-> note]

\* Who posts what: the session's username (none when not logged in) and the
\* form fields sent with it
Requests ==
    {[user |-> "asha",
      form |-> Form("Gujarat", "clayey", "2.5", <<" ", "o", "k", " ">>)],
     [user |-> "ravi", form |-> Form("Atlantis", "sandy", "abc", <<>>)],
     [user |-> NoUser, form |-> Form("Gujarat", "clayey", "2.5", <<>>)]}

\* request.files.get("photo"): no file part, or a FileStorage and its name
NoPhoto == [present |-> FALSE, filename |-> <<>>]
Photo(name) == [present |-> TRUE, filename |-> name]

Photos ==
    {NoPhoto, Photo(<<>>), Photo(<<"a", ".", "P", "N", "G">>),
     Photo(<<"a", ".", "e", "x", "e">>), Photo(<<"p", "n", "g">>),
     Photo(<<"a", ".", "p", "n", "g", ".">>)}

\* bool(file_storage): a FileStorage is true when its filename is not empty
Truthy(photo) == photo.present /\ photo.filename # <<>>

Entry(form, filename, timestamp, username) ==
    [region |-> form.region, soil |-> form.soil, area_sqm |-> form.area_sqm,
     note |-> form.note, filename |-> filename, created_at |-> timestamp,
     username |-> username]

\* An entry an earlier run of the program left behind at second t
OldEntry(t) ==
    Entry(Form("Gujarat", "clayey", "2.5", <<"o", "k">>),
          strftime(t) \o <<"_">> \o <<"a", ".", "P", "N", "G">>,
          strftime(t), "asha")

\* What can lie at LOG_PATH when the process starts
InitDocs ==
    {Document("missing", <<>>), Document("empty", <<>>),
     Document("malformed", <<>>), Document("nonlist", <<>>),
     ListDoc(<<>>), ListDoc(<<OldEntry(8)>>),
     ListDoc(<<OldEntry(7), OldEntry(8)>>)}

NoCall == [photo |-> NoPhoto,
           entry |-> Entry(Form("", "", "", <<>>), <<>>, <<>>, NoUser),
           entries |-> <<>>]

\* A worker's last request and the response to it: for POST /progress the
\* photo sent, whether success was rendered and the filename
\* save_progress_entry returned
Idle == [kind |-> "none"]
Redirect == [kind |-> "redirect"]
Pending(photo) == [kind |-> "pending", photo |-> photo]
ProgressPage(photo, saved_filename, ok) ==
    [kind |-> "page", photo |-> photo, success |-> ok,
     filename |-> saved_filename]
ServerError(photo) == [kind |-> "error", photo |-> photo]

-----------------------------------------------------------------------------
(* Actions of the ledger *)

\* The clock moves on
Tick ==
    /\ now < MaxClock
    /\ now' = now + 1
    /\ UNCHANGED <<doc, uploads, pc, call, outcome, found, begun, ledger>>
    /\ UNCHANGED engineVars

\* POST /progress up to the upload: require_login, the form fields,
\* save_progress_entry's check of the photo, the timestamped name, the save
\* of the file
BeginSubmission(w, user, form, photo, limit) ==
    /\ pc[w] = "idle"
    /\ IF user = NoUser
       THEN /\ outcome' = [outcome EXCEPT ![w] = Redirect]
            /\ UNCHANGED <<uploads, pc, call, begun>>
       ELSE IF ~(Truthy(photo) /\ allowed_file(photo.filename))
       THEN /\ outcome' =
                 [outcome EXCEPT ![w] = ProgressPage(photo, <<>>, FALSE)]
            /\ UNCHANGED <<uploads, pc, call, begun>>
       ELSE LET timestamp == strftime(now)
                filename == timestamp \o <<"_">> \o secure_filename(photo.filename)
                note == Strip(form.note, {" "})
            IN /\ begun < limit
               /\ begun' = begun + 1
               /\ uploads' = uploads \cup {filename}
               /\ call' = [call EXCEPT ![w] =
                              [photo |-> photo,
                               entry |-> Entry([form EXCEPT !.note = note],
                                               filename, timestamp, user),
                               entries |-> <<>>]]
               /\ pc' = [pc EXCEPT ![w] = "load"]
               /\ outcome' = [outcome EXCEPT ![w] = Pending(photo)]
    /\ UNCHANGED <<now, doc, found, ledger>>
    /\ UNCHANGED engineVars

\* entries = load_progress_log(); entries.append({...})
\* A loaded value that is no list has no append: AttributeError
LoadAndAppend(w) ==
    /\ pc[w] = "load"
    /\ LET loaded == load_progress_log(doc) IN
       IF loaded.kind # "list"
       THEN /\ outcome' = [outcome EXCEPT ![w] = ServerError(call[w].photo)]
            /\ pc' = [pc EXCEPT ![w] = "idle"]
            /\ call' = [call EXCEPT ![w] = NoCall]
       ELSE /\ call' = [call EXCEPT ![w].entries =
                                 Append(loaded.entries, call[w].entry)]
            /\ pc' = [pc EXCEPT ![w] = "open"]
            /\ UNCHANGED outcome
    /\ UNCHANGED <<now, doc, uploads, found, begun, ledger>>
    /\ UNCHANGED engineVars

\* save_progress_log: open(LOG_PATH, "w") empties the file
OpenForWrite(w) ==
    /\ pc[w] = "open"
    /\ doc' = Document("empty", <<>>)
    /\ pc' = [pc EXCEPT ![w] = "dump"]
    /\ UNCHANGED <<now, uploads, call, outcome, found, begun, ledger>>
    /\ UNCHANGED engineVars

\* What the file holds once `entries` is written at offset 0 over `d`: the
\* text of entries, followed by what d has beyond it.  Text after the
\* closing bracket does not parse.  When d is a prefix of entries nothing
\* is beyond; otherwise the lengths of the two texts decide, and they
\* depend on the field values.
Overwrite(d, entries) ==
    IF d.kind = "empty" THEN {ListDoc(entries)}
    ELSE IF d.kind = "list" /\ IsPrefix(d.entries, entries)
         THEN {ListDoc(entries)}
         ELSE {ListDoc(entries), Document("malformed", <<>>)}

\* save_progress_log: json.dump and the close that flushes it; the call
\* returns the filename and POST /progress renders success
DumpAndReturn(w) ==
    /\ pc[w] = "dump"
    /\ doc' \in Overwrite(doc, call[w].entries)
    /\ pc' = [pc EXCEPT ![w] = "idle"]
    /\ outcome' = [outcome EXCEPT ![w] =
                      ProgressPage(call[w].photo, call[w].entry.filename,
                                   TRUE)]
    /\ ledger' = Append(ledger, call[w].entry)
    /\ call' = [call EXCEPT ![w] = NoCall]
    /\ UNCHANGED <<now, uploads, found, begun>>
    /\ UNCHANGED engineVars

\* GET /gallery
GalleryPage(user, entries) ==
    LET user_entries == UserEntries(entries, user) IN
    [kind |-> "gallery", current_user |-> user,
     entries |-> SortNewestFirst(user_entries),
     badges |-> compute_badges_for_user(user_entries)]

Gallery(w, user) ==
    /\ pc[w] = "idle"
    /\ outcome' = [outcome EXCEPT ![w] =
                     IF user = NoUser THEN Redirect
                     ELSE GalleryPage(user, load_progress_entries(doc))]
    /\ UNCHANGED <<now, doc, uploads, pc, call, found, begun, ledger>>
    /\ UNCHANGED engineVars

-----------------------------------------------------------------------------
(* Specifications *)

LedgerIdle(d) ==
    /\ now = 9
    /\ doc = d
    /\ found = Len(load_progress_entries(d))
    /\ begun = 0
    /\ uploads = {}
    /\ pc = [w \in Workers |-> "idle"]
    /\ call = [w \in Workers |-> NoCall]
    /\ outcome = [w \in Workers |-> Idle]
    /\ ledger = load_progress_entries(d)

\* The ledger under concurrent requests
Init ==
    /\ plantDb = HomeCatalog
    /\ EngineIdle
    /\ \E d \in InitDocs : LedgerIdle(d)

Next ==
    \/ Tick
    \/ \E w \in Workers, req \in Requests,
          photo \in {NoPhoto, Photo(<<"a", ".", "P", "N", "G">>)} :
          BeginSubmission(w, req.user, req.form, photo, MaxCalls)
    \/ \E w \in Workers : LoadAndAppend(w)
    \/ \E w \in Workers : OpenForWrite(w)
    \/ \E w \in Workers : DumpAndReturn(w)
    \/ \E w \in Workers, user \in Users \cup {NoUser} : Gallery(w, user)

Spec == Init /\ [][Next]_vars

\* The ledger under one request at a time
SeqNext ==
    \/ Tick
    \/ \E req \in Requests, photo \in Photos :
          BeginSubmission(1, req.user, req.form, photo, MaxSeqCalls)
    \/ LoadAndAppend(1)
    \/ OpenForWrite(1)
    \/ DumpAndReturn(1)
    \/ \E user \in Users \cup {NoUser} : Gallery(1, user)

SeqSpec == Init /\ [][SeqNext]_vars

\* get_recommendations over a range of catalogs
RecInit ==
    /\ plantDb \in RecCatalogs
    /\ EngineIdle
    /\ LedgerIdle(ListDoc(<<>>))

RecNext ==
    \E region \in Regions, soil \in Soils, wants_fruit \in BOOLEAN :
        Recommend(region, soil, wants_fruit)

RecSpec == RecInit /\ [][RecNext]_vars

\* The estimators and POST /assess over a range of catalogs and areas
AssessInit ==
    /\ plantDb \in AssessCatalogs
    /\ EngineIdle
    /\ LedgerIdle(ListDoc(<<>>))

AssessNext ==
    \/ \E area_sqm \in AreaInputs : EstimateTrees(area_sqm)
    \/ \E user \in Users \cup {NoUser}, region \in Regions, soil \in Soils,
          wants_fruit \in BOOLEAN, area_sqm \in AreaInputs :
          Assess(user, region, soil, wants_fruit, area_sqm)

AssessSpec == AssessInit /\ [][AssessNext]_vars

-----------------------------------------------------------------------------
(* Claims *)

AllIdle == \A w \in Workers : pc[w] = "idle"

Stored == load_progress_entries(doc)

\* The entries of the calls that returned a filename
ReturnedEntries == SubSeq(ledger, found + 1, Len(ledger))

\* C1: once all save_progress_entry calls have returned, the persisted
\* ledger holds an entry for every call that returned a filename.
C1_NoAppendLost ==
    AllIdle =>
        \A i \in 1..Len(ReturnedEntries) :
            Count(Stored, ReturnedEntries[i]) >= Count(ReturnedEntries, ReturnedEntries[i])

\* C2: after any series of calls made one at a time, load_progress_entries
\* returns the entries found at start followed by the entry of each call that
\* returned a filename, in the order of the calls.
C2_RoundTrip == pc[1] = "idle" => load_progress_entries(doc) = ledger

C2_Witness ==
    /\ pc[1] = "idle"
    /\ found >= 1
    /\ Len(ledger) >= found + 2
    /\ doc.kind = "list"

\* C3: no ledger operation raises, whatever lies at LOG_PATH.
C3_NoOperationRaises == \A w \in Workers : outcome[w].kind # "error"

\* The photos of the model that are absent or carry a disallowed extension
RejectablePhotos == Photos \ {Photo(<<"a", ".", "P", "N", "G">>)}

\* C4: a submission whose photo is absent or has a disallowed extension is
\* answered "not saved" at once, without an exception, and leaves the
\* persisted ledger as it was; a call that returns a filename has appended
\* one entry, carrying that filename, to the ledger it found.
C4_RejectedOrAppended ==
    [][\A w \in Workers :
         /\ (/\ outcome'[w].kind \in {"pending", "page", "error"}
             /\ outcome'[w].photo \in RejectablePhotos)
              => /\ outcome'[w].kind = "page"
                 /\ ~outcome'[w].success
                 /\ pc'[w] = "idle"
         /\ (/\ pc[w] = "idle" /\ pc'[w] = "idle"
             /\ outcome'[w].kind = "page"
             /\ ~outcome'[w].success)
              => doc' = doc
         /\ (/\ pc[w] # "idle" /\ pc'[w] = "idle"
             /\ outcome'[w].kind = "page")
              => /\ outcome'[w].success
                 /\ doc'.kind = "list"
                 /\ Len(doc'.entries) = Len(ledger) + 1
                 /\ SubSeq(doc'.entries, 1, Len(ledger)) = ledger
                 /\ doc'.entries[Len(ledger) + 1].filename
                        = outcome'[w].filename
                 /\ outcome'[w].filename # <<>>]_vars

C4_Witness ==
    /\ outcome[1].kind = "page"
    /\ ~outcome[1].success
    /\ outcome[1].photo = Photo(<<"a", ".", "e", "x", "e">>)
    /\ Len(ledger) > found
    /\ Stored = ledger

\* C5: the gallery's entry list holds exactly the ledger entries whose
\* username is the current user, each as often as the ledger holds it, with
\* created_at non-increasing as a string.
C5_PerUserNewestFirst ==
    \A w \in Workers :
        outcome[w].kind = "gallery" =>
            LET g == outcome[w] IN
            /\ \A e \in Range(ledger) \cup Range(g.entries) :
                   Count(g.entries, e) =
                       IF e.username = g.current_user
                       THEN Count(ledger, e) ELSE 0
            /\ \A i \in 1..(Len(g.entries) - 1) :
                   StrLeq(g.entries[i + 1].created_at, g.entries[i].created_at)

C5_Witness ==
    /\ outcome[1].kind = "gallery"
    /\ Len(outcome[1].entries) >= 2
    /\ outcome[1].entries[1].created_at # outcome[1].entries[2].created_at
    /\ \E e \in Range(ledger) : e.username # outcome[1].current_user

\* C6 as stated: the plants returned never hold a name twice.
C6_NoDuplicatePlants ==
    recOut.kind = "rec" => NoDuplicates(recOut.rec.plants)

\* C6, amended: when the profile's fruit_trees list and its native_trees
\* list each hold no name twice, the plants returned hold no name twice,
\* whatever oxygen_trees holds and however the three lists overlap.
C6_NoDuplicatesFromDistinctLists ==
    (/\ recOut.kind = "rec"
     /\ \A r \in DOMAIN plantDb : \A so \in DOMAIN plantDb[r] :
            LET data == plantDb[r][so] IN
            /\ "fruit_trees" \in data.keys => NoDuplicates(data.fruit_trees)
            /\ "native_trees" \in data.keys => NoDuplicates(data.native_trees))
        => NoDuplicates(recOut.rec.plants)

C6_Witness ==
    /\ recOut.kind = "rec"
    /\ recOut.wants_fruit
    /\ ~KeyError(plantDb, recOut.region, recOut.soil)
    /\ LET data == plantDb[recOut.region][recOut.soil] IN
       /\ {"fruit_trees", "oxygen_trees"} \subseteq data.keys
       /\ NoDuplicates(data.fruit_trees)
       /\ NoDuplicates(data.native_trees)
       /\ ~NoDuplicates(data.oxygen_trees)
       /\ Range(data.fruit_trees) \cap Range(data.oxygen_trees) # {}
       /\ Len(recOut.rec.plants) = 2

\* What C7 says an estimator returns for a density of n/d trees per unit
EstimateClaimed(a, n, d) ==
    IF a.kind = "numeral" /\ a.e > 0 THEN (a.e * n) \div (8 * d) ELSE 0

\* C7: for every area input both estimators return an integer without
\* raising: 0 for a missing, non-numeric or non-positive area, else the
\* floor of area * 4 and of area * 1.5.
C7_EstimatorsNeverFail ==
    estOut.kind = "est" =>
        /\ estOut.intensive.kind = "return"
        /\ estOut.traditional.kind = "return"
        /\ estOut.area_sqm.kind \in {"none", "text", "numeral", "ninf"} =>
             /\ estOut.intensive.value = EstimateClaimed(estOut.area_sqm, 4, 1)
             /\ estOut.traditional.value = EstimateClaimed(estOut.area_sqm, 3, 2)

\* r tenths is 0 for a denominator of 0, and else n / d rounded to one decimal
RatioClaimed(r, n, d) ==
    IF d = 0 THEN r = 0 ELSE 2 * Abs(r * d - 10 * n) <= d

\* C8: assess never divides by zero, and each ratio it computes is 0 when
\* its denominator is 0 and else the quotient rounded to one decimal.
C8_RatiosGuarded ==
    /\ assessOut.kind = "error" => assessOut.exc # "ZeroDivisionError"
    /\ assessOut.kind = "results" =>
         LET a == assessOut IN
         /\ RatioClaimed(a.comparison.trees_ratio, a.tree_count,
                         a.traditional_tree_count)
         /\ RatioClaimed(a.comparison.cost_ratio, a.impact.total_cost,
                         a.traditional_impact.total_cost)
         /\ RatioClaimed(a.comparison.speed_ratio,
                         a.traditional_maturity_months,
                         a.recommendations.maturity_months)

C8_Witness ==
    /\ assessOut.kind = "results"
    /\ assessOut.traditional_tree_count > 0
    /\ assessOut.traditional_impact.total_cost = 0
    /\ assessOut.comparison.cost_ratio = 0
    /\ assessOut.comparison.trees_ratio > 0

BadgeTable ==
    <<[at |-> 1, label |-> "Forest starter"],
      [at |-> 3, label |-> "Consistent carer"],
      [at |-> 5, label |-> "Storyteller"]>>

\* The badges of the table whose threshold is at most n, in table order
BadgesClaimed(n) ==
    LET earned == SelectSeq(BadgeTable, LAMBDA b : b.at <= n)
    IN [i \in 1..Len(earned) |-> earned[i].label]

\* C9: the badges are those of the table whose threshold is at most the
\* number of entries, in table order; so the badges for n are a prefix of
\* the badges for n + 1, and there are none for 0.
C9_BadgesByCount ==
    /\ \A n \in 0..(MaxSeqCalls + 4) :
           /\ BadgesForCount(n) = BadgesClaimed(n)
           /\ IsPrefix(BadgesForCount(n), BadgesForCount(n + 1))
    /\ \A w \in Workers :
           outcome[w].kind = "gallery" =>
               outcome[w].badges = BadgesClaimed(Len(outcome[w].entries))

C9_Witness ==
    /\ outcome[1].kind = "gallery"
    /\ Len(outcome[1].entries) >= 5
    /\ Len(outcome[1].badges) = 3

\* C10: created_at never decreases along the stored order.
C10_CreatedAtNonDecreasing ==
    doc.kind = "list" =>
        \A i, j \in 1..Len(doc.entries) :
            i < j => StrLeq(doc.entries[i].created_at,
                            doc.entries[j].created_at)

====
